---- MODULE Spec2Model ----
(***************************************************************************)
(* callmeout: daily GitHub push counters (webhook ingestor) and the        *)
(* goal-evaluation sweep (checkPushGoals) that sends Discord reminders and *)
(* congratulations.  The model follows the latest server file of the      *)
(* repository (src/unnamed/part_002).                                      *)
(***************************************************************************)
EXTENDS Integers, Sequences, FiniteSets, TLC

VARIABLES
    users,           \* table users: one row per users.id
    github_counter,  \* table github_counter: one row per (user_id, date), or absent
    clock,           \* the instant, in ticks since midnight UTC of day 0
    tz,              \* host offset of local time from UTC, in ticks
    CRON_SECRET,     \* process.env.CRON_SECRET, or not set
    lookups,         \* webhook requests awaiting the user lookup, per sender id
    upserts,         \* webhook requests awaiting increment_push_counter, per user
    last,            \* the last answer of POST /api/gitwebhook
    ok200,           \* number of webhooks answered 200, per (user, date)
    sweep,           \* the running / last checkPushGoals invocation, per instance
    congrats,        \* congratulatory messages delivered, per (user, date)
    nsettings        \* number of POST /api/settings and /api/onboarding requests so far

vars == <<users, github_counter, clock, tz, CRON_SECRET, lookups, upserts, last, ok200,
          sweep, congrats, nsettings>>

---------------------------------------------------------------------------
(* Bounds of the model *)

MaxClock == 2        \* last instant explored
MaxPush == 2         \* pushes accepted per user and date
MaxInflight == 2     \* webhook requests in flight at once
MaxCongrats == 2     \* congratulations counted per user and date
MaxGoal == 2         \* largest push_goal a settings request asks for
MaxSettings == 1     \* POST /api/settings requests
MaxRequests == 2     \* account requests (settings, onboarding) in a row

Users == {1, 2}                  \* users.id of the rows of table users
Times == {0, 1}                  \* times of day ("HH:MM"), in ticks
TicksPerDay == Cardinality(Times)
TzOffsets == {0, 1}              \* host timezone offsets, in ticks
Dates == 0 .. (MaxClock \div TicksPerDay)
SweepIds == {1, 2}               \* checkPushGoals instances that may be alive

NullTime == -1                   \* annoy_time IS NULL
NullUrl == "null"                \* discord_webhook_url IS NULL
Url == "https://discord/hook"

GithubId(u) == 100 + u           \* users.github_id (UNIQUE NOT NULL)
UnknownSender == 999             \* a github id no users row has
SenderIds == {GithubId(u) : u \in Users} \cup {UnknownSender}

---------------------------------------------------------------------------
(* The clock: new Date() read two ways *)

\* new Date().toISOString().split('T')[0]: the UTC calendar date
Today == clock \div TicksPerDay

\* new Date().toTimeString().slice(0, 5): the host's local time of day
Now == (clock + tz) % TicksPerDay

---------------------------------------------------------------------------
(* Counter Store *)

NoRow == [exists |-> FALSE, push_counter |-> 0, is_job_done |-> FALSE]

\* rpc increment_push_counter(user_id_in): insert (user, today, 1) or add 1
increment_push_counter(gc, u, d) ==
    [gc EXCEPT ![u, d] =
        IF @.exists
        THEN [@ EXCEPT !.push_counter = @ + 1]
        ELSE [exists |-> TRUE, push_counter |-> 1, is_job_done |-> FALSE]]

\* an update filtered on user_id instead of the counter's id
setJobDoneAllDates(gc, u, d) ==
    [k \in DOMAIN gc |->
        IF k[1] = u /\ gc[k].exists THEN [gc[k] EXCEPT !.is_job_done = TRUE] ELSE gc[k]]

\* a write that replaces the row by a new one (push_counter DEFAULT 1)
setJobDoneReplacesRow(gc, u, d) ==
    IF gc[u, d].exists
    THEN [gc EXCEPT ![u, d] = [exists |-> TRUE, push_counter |-> 1, is_job_done |-> TRUE]]
    ELSE gc

\* an update without the .eq filter: it writes the flag of every row, true
\* for the counter of the user and false for the others
setJobDoneClearsOthers(gc, u, d) ==
    [k \in DOMAIN gc |->
        IF gc[k].exists THEN [gc[k] EXCEPT !.is_job_done = (k = <<u, d>>)] ELSE gc[k]]

\* update({is_job_done: true}).eq('id', counter.id)
setJobDone(gc, u, d) ==
    IF gc[u, d].exists THEN [gc EXCEPT ![u, d].is_job_done = TRUE] ELSE gc

---------------------------------------------------------------------------
(* Webhook Ingestor: POST /api/gitwebhook *)

GITWEBHOOK_SECRET == 1           \* process.env.GITWEBHOOK_SECRET
ForgedSecret == 2                \* a key that is not the shared secret
SigLen == 71                     \* 'sha256=' + 64 hex digits

NoSender == 0                    \* the payload has no sender.id
\* raw request bodies: JSON push events (with or without sender.id), or not JSON
Bodies == {[json |-> TRUE, sender |-> s] : s \in SenderIds \cup {NoSender}}
            \cup {[json |-> FALSE, sender |-> NoSender]}
PushBodies == {[json |-> TRUE, sender |-> GithubId(u)] : u \in Users}

\* crypto.createHmac('sha256', key).update(body).digest('hex'): a keyed digest,
\* different for different (key, body)
hmacSha256(key, body) == [key |-> key, body |-> body]

\* the X-Hub-Signature-256 header: absent, or 'sha256=' + digest (len bytes)
NoHeader == [present |-> FALSE, len |-> 0, mac |-> hmacSha256(0, [json |-> FALSE, sender |-> NoSender])]
Sign(key, body) == [present |-> TRUE, len |-> SigLen, mac |-> hmacSha256(key, body)]
Truncate(h) == [h EXCEPT !.len = SigLen - 1]
\* the headers a request with this body may carry: none, the right signature,
\* the right one cut short, one made with another key, one of another body
Headers(body) ==
    {NoHeader, Sign(GITWEBHOOK_SECRET, body), Truncate(Sign(GITWEBHOOK_SECRET, body)),
     Sign(ForgedSecret, body)}
        \cup {Sign(GITWEBHOOK_SECRET, b) : b \in PushBodies}

\* whether the claimed signature is the HMAC-SHA256 of the raw body
SignatureMatches(body, header) == header = Sign(GITWEBHOOK_SECRET, body)

\* a comparison that looks at the lengths only
timingSafeEqualLengthOnly(ours, theirs) ==
    IF ~theirs.present THEN "throw"
    ELSE IF theirs.len # ours.len THEN "throw"
    ELSE "equal"

\* crypto.timingSafeEqual(Buffer.from(ourSignature), Buffer.from(githubSignature)):
\* "throw" for a missing header (Buffer.from(undefined)) and for buffers of
\* different length, otherwise whether the bytes are equal
timingSafeEqual(ours, theirs) ==
    IF ~theirs.present THEN "throw"
    ELSE IF theirs.len # ours.len THEN "throw"
    ELSE IF theirs.mac = ours.mac THEN "equal" ELSE "differ"

Known(sender) == \E u \in Users : GithubId(u) = sender
UserOf(sender) == CHOOSE u \in Users : GithubId(u) = sender

Answer(sigok, sender, status) ==
    [sigok |-> sigok, known |-> Known(sender), status |-> status]
NoAnswer == [sigok |-> FALSE, known |-> FALSE, status |-> "none"]

Inflight ==
    LET RECURSIVE SumL(_), SumU(_)
        SumL(S) == IF S = {} THEN 0
                   ELSE LET x == CHOOSE x \in S : TRUE IN lookups[x] + SumL(S \ {x})
        SumU(S) == IF S = {} THEN 0
                   ELSE LET x == CHOOSE x \in S : TRUE IN upserts[x] + SumU(S \ {x})
    IN SumL(SenderIds) + SumU(Users)

\* what the handler answers before its first await: "threw" when it throws
\* before any answer, "401", or "pending" when it goes on to the user lookup
gitwebhookStatus(body, header) ==
    LET cmp == timingSafeEqual(Sign(GITWEBHOOK_SECRET, body), header) IN
    IF cmp = "throw" THEN "threw"
    ELSE IF cmp = "differ" THEN "401"
    ELSE IF ~body.json \/ body.sender = NoSender THEN "threw"
    ELSE "pending"

\* the handler up to its first await: signature check, JSON.parse, sender.id
gitwebhook(body, header) ==
    /\ UNCHANGED <<users, github_counter, clock, tz, CRON_SECRET, upserts, ok200, sweep, congrats,
                   nsettings>>
    /\ lookups' = IF gitwebhookStatus(body, header) = "pending"
                  THEN [lookups EXCEPT ![body.sender] = @ + 1]
                  ELSE lookups

\* a handler that answers 200 when the lookup finds no row
lookupStatusSwallowsUnknown(sender, storeOk) ==
    IF storeOk /\ Known(sender) THEN "pending"
    ELSE IF storeOk THEN "200" ELSE "404"

\* if (!pushData || userError) return response.status(404)
lookupStatus(sender, storeOk) ==
    IF storeOk /\ Known(sender) THEN "pending" ELSE "404"

\* from('users').select('id').eq('github_id', sender).single() returns
webhookLookup(sender, storeOk) ==
    /\ lookups[sender] > 0
    /\ lookups' = [lookups EXCEPT ![sender] = @ - 1]
    /\ UNCHANGED <<users, github_counter, clock, tz, CRON_SECRET, ok200, sweep, congrats, nsettings>>
    /\ upserts' = IF lookupStatus(sender, storeOk) = "pending"
                  THEN [upserts EXCEPT ![UserOf(sender)] = @ + 1]
                  ELSE upserts

\* a handler that does not look at counterUpsertError
upsertStatusIgnoresError(storeOk) == "200"

\* if (counterUpsertError) return response.status(500), else 200
upsertStatus(storeOk) == IF storeOk THEN "200" ELSE "500"

\* rpc('increment_push_counter', {user_id_in}) returns
webhookUpsert(u, storeOk) ==
    /\ upserts[u] > 0
    /\ upserts' = [upserts EXCEPT ![u] = @ - 1]
    /\ UNCHANGED <<users, clock, tz, CRON_SECRET, lookups, sweep, congrats, nsettings>>
    /\ github_counter' = IF storeOk
                         THEN increment_push_counter(github_counter, u, Today)
                         ELSE github_counter
    /\ ok200' = IF upsertStatus(storeOk) = "200"
                THEN [ok200 EXCEPT ![u, Today] = @ + 1]
                ELSE ok200

\* one minute passes
Tick ==
    /\ clock < MaxClock
    /\ clock' = clock + 1
    /\ UNCHANGED <<users, github_counter, tz, CRON_SECRET, lookups, upserts, last, ok200,
                   sweep, congrats, nsettings>>

---------------------------------------------------------------------------
(* Settings: POST /api/settings *)

Undefined == [t |-> "undefined", n |-> 0]
\* request.body.push_goal: missing, a number, a numeric string, another string
GoalInputs == {Undefined, [t |-> "text", n |-> 0], [t |-> "numstr", n |-> MaxGoal]}
                \cup {[t |-> "number", n |-> k] : k \in 0 .. MaxGoal}
\* request.body.annoy_time: missing, null or '', "HH:MM", or malformed
TimeInputs == {Undefined, [t |-> "null", n |-> 0], [t |-> "bad", n |-> 0]}
                \cup {[t |-> "time", n |-> k] : k \in Times}
\* request.body.discord_webhook_url: missing, null or '', a URL, or malformed
UrlInputs == {Undefined, [t |-> "null", n |-> 0], [t |-> "url", n |-> 0],
              [t |-> "bad", n |-> 0]}

\* every shape of request.body.push_goal: besides GoalInputs, negative numbers
\* and numeric strings, strings with a numeric prefix ("-1abc", "2 pushes") and
\* numbers with a fraction (n + 0.5)
GoalInputsAll ==
    GoalInputs
        \cup {[t |-> ty, n |-> k] : ty \in {"number", "numstr", "prefixed"}, k \in -1 .. MaxGoal}
        \cup {[t |-> "fraction", n |-> k] : k \in 0 .. MaxGoal}

\* parseInt(v, 10): the integer a number or string starts with, or NaN
parseInt(v) ==
    IF v.t \in {"number", "numstr", "prefixed", "fraction"} THEN [nan |-> FALSE, n |-> v.n]
    ELSE [nan |-> TRUE, n |-> 0]

\* a column that is only NOT NULL
usersCheckNotNull(goal) == ~goal.nan

\* push_goal INT NOT NULL ... CHECK ( push_goal>0 ): what the store accepts;
\* NaN is sent as null
usersCheck(goal) == ~goal.nan /\ goal.n > 0

\* the 400 answers of the handler
settingsRejected(push_goal, annoy_time, discord_webhook_url) ==
    \/ /\ push_goal.t # "undefined"
       /\ parseInt(push_goal).nan \/ parseInt(push_goal).n < 1
    \/ annoy_time.t = "bad"
    \/ discord_webhook_url.t = "bad"
    \/ /\ push_goal.t = "undefined"
       /\ annoy_time.t = "undefined"
       /\ discord_webhook_url.t = "undefined"

\* updateData applied to the row of the session's user
settingsUpdate(row, push_goal, annoy_time, discord_webhook_url) ==
    [row EXCEPT
       !.push_goal = IF push_goal.t = "undefined" THEN @ ELSE parseInt(push_goal).n,
       !.annoy_time = IF annoy_time.t = "undefined" THEN @
                      ELSE IF annoy_time.t = "time" THEN annoy_time.n ELSE NullTime,
       !.discord_webhook_url =
                      IF discord_webhook_url.t = "undefined" THEN @
                      ELSE IF discord_webhook_url.t = "url" THEN Url ELSE NullUrl]

settings(u, push_goal, annoy_time, discord_webhook_url) ==
    /\ UNCHANGED <<github_counter, clock, tz, CRON_SECRET, lookups, upserts, last, ok200,
                   sweep, congrats>>
    /\ nsettings' = nsettings + 1
    /\ IF settingsRejected(push_goal, annoy_time, discord_webhook_url)
       THEN UNCHANGED users
       ELSE \E storeOk \in BOOLEAN :
              users' = IF storeOk /\ (push_goal.t = "undefined"
                                      \/ usersCheck(parseInt(push_goal)))
                       THEN [users EXCEPT ![u] = settingsUpdate(@, push_goal,
                                                   annoy_time, discord_webhook_url)]
                       ELSE users

---------------------------------------------------------------------------
(* Login: GET /callback *)

\* upsert({github_id, github_username, github_access_token}, {onConflict:
\* 'github_id'}) on the existing row of the user: push_goal, annoy_time and
\* discord_webhook_url are not among the columns written
callback(u) == UNCHANGED vars

---------------------------------------------------------------------------
(* Onboarding: POST /api/onboarding *)

\* the 400 answers of the handler: !push_goal || push_goal < 1, a missing or
\* malformed annoy_time, a malformed discord_webhook_url
onboardingRejected(push_goal, annoy_time, discord_webhook_url) ==
    \/ push_goal.t = "undefined"
    \/ push_goal.t \in {"number", "numstr", "fraction"} /\ push_goal.n < 1
    \/ annoy_time.t # "time"
    \/ discord_webhook_url.t = "bad"

\* updateData: all three columns are written
onboardingUpdate(row, push_goal, annoy_time, discord_webhook_url) ==
    [push_goal |-> parseInt(push_goal).n,
     annoy_time |-> annoy_time.n,
     discord_webhook_url |-> IF discord_webhook_url.t = "url" THEN Url ELSE NullUrl]

\* the update fails in the store for a push_goal the column does not accept
onboarding(u, push_goal, annoy_time, discord_webhook_url) ==
    /\ UNCHANGED <<github_counter, clock, tz, CRON_SECRET, lookups, upserts, last, ok200,
                   sweep, congrats>>
    /\ nsettings' = nsettings + 1
    /\ IF onboardingRejected(push_goal, annoy_time, discord_webhook_url)
       THEN UNCHANGED users
       ELSE \E storeOk \in BOOLEAN :
              users' = IF storeOk /\ usersCheck(parseInt(push_goal))
                       THEN [users EXCEPT ![u] = onboardingUpdate(@, push_goal,
                                                   annoy_time, discord_webhook_url)]
                       ELSE users

---------------------------------------------------------------------------
(* Goal Evaluator: checkPushGoals *)

NoCounters == [u \in Users |-> NoRow]
\* no checkPushGoals call is running
IdleSweep ==
    [pc |-> "idle", today |-> 0, now |-> 0, users |-> <<>>, counters |-> NoCounters,
     fetch |-> "none", i |-> 0, doneAtStart |-> {}]

\* the filter with .lt in place of .lte
DueStrictlyBefore(row, now) ==
    /\ row.discord_webhook_url # NullUrl
    /\ row.annoy_time # NullTime
    /\ row.annoy_time < now

\* the filter without .not('annoy_time','is',null)
DueWithoutNullCheck(row, now) ==
    /\ row.discord_webhook_url # NullUrl
    /\ row.annoy_time <= now

\* .not('discord_webhook_url','is',null).not('annoy_time','is',null).lte('annoy_time', now)
Due(row, now) ==
    /\ row.discord_webhook_url # NullUrl
    /\ row.annoy_time # NullTime
    /\ row.annoy_time <= now

\* the rows the select returns, in any order (the query has no ORDER BY)
Selections(now) ==
    LET D == {u \in Users : Due(users[u], now)}
    IN {sq \in [1 .. Cardinality(D) -> D] : \A a, b \in DOMAIN sq : a # b => sq[a] # sq[b]}

SelectedIds(r) == {r.users[j].id : j \in DOMAIN r.users}
\* select('id, push_goal, discord_webhook_url, annoy_time')
UserRow(u) == [id |-> u, push_goal |-> users[u].push_goal,
               discord_webhook_url |-> users[u].discord_webhook_url,
               annoy_time |-> users[u].annoy_time]

\* if (counter?.is_job_done) continue
Skipped(r, j) == r.counters[r.users[j].id].is_job_done
\* counter?.push_counter || 0
pushCount(r, j) ==
    LET c == r.counters[r.users[j].id] IN IF c.exists THEN c.push_counter ELSE 0
\* pushCount >= user.push_goal
goalMet(r, j) == pushCount(r, j) >= r.users[j].push_goal
\* if (goalMet && counter): the flag write is issued before the post
writesFlag(r, j) == goalMet(r, j) /\ r.counters[r.users[j].id].exists

\* the user the sweep is writing the flag of, or posting to
Target(r) == r.users[r.i].id

\* the loop runs on, without awaiting, to the next user it does not skip, and
\* the call returns when there is none
Proceed(r, from) ==
    LET todo == {j \in from .. Len(r.users) : ~Skipped(r, j)} IN
    IF todo = {} THEN IdleSweep
    ELSE LET j == CHOOSE j \in todo : \A k \in todo : j <= k IN
         [r EXCEPT !.i = j, !.pc = IF writesFlag(r, j) THEN "flag" ELSE "post"]

\* checkPushGoals is called: today and now are read from the clock
checkPushGoals(s) ==
    /\ sweep[s].pc = "idle"
    /\ sweep' = [sweep EXCEPT ![s] =
                    [IdleSweep EXCEPT !.pc = "users", !.today = Today, !.now = Now,
                       !.doneAtStart = {u \in Users : github_counter[u, Today].is_job_done}]]
    /\ UNCHANGED <<users, github_counter, clock, tz, CRON_SECRET, lookups, upserts, last, ok200,
                   congrats, nsettings>>

\* the users query returns: if (usersError || !users?.length) return
sweepFetchUsers(s) ==
    /\ sweep[s].pc = "users"
    /\ UNCHANGED <<users, github_counter, clock, tz, CRON_SECRET, lookups, upserts, last, ok200,
                   congrats, nsettings>>
    /\ \E storeOk \in BOOLEAN :
         IF ~storeOk
         THEN sweep' = [sweep EXCEPT ![s] = IdleSweep]
         ELSE \E sel \in Selections(sweep[s].now) :
                sweep' = [sweep EXCEPT ![s] =
                            IF DOMAIN sel = {} THEN IdleSweep
                            ELSE [@ EXCEPT !.pc = "counters",
                                    !.users = [j \in DOMAIN sel |-> UserRow(sel[j])]]]

\* a query without .eq('date', today): the Map keeps a user's newest row
counterMapAnyDate(r) ==
    [u \in Users |->
        LET ds == {d \in Dates : github_counter[u, d].exists} IN
        IF u \notin SelectedIds(r) \/ ds = {} THEN NoRow
        ELSE github_counter[u, CHOOSE d \in ds : \A e \in ds : e <= d]]

\* from('github_counter').select(...).eq('date', today).in('user_id', ids),
\* then new Map(counters.map(c => [c.user_id, c]))
counterMap(r) ==
    [u \in Users |-> IF u \in SelectedIds(r) THEN github_counter[u, r.today] ELSE NoRow]

\* the counters query returns; its error is not looked at, and
\* new Map(undefined) is the empty map
sweepFetchCounters(s) ==
    /\ sweep[s].pc = "counters"
    /\ UNCHANGED <<users, github_counter, clock, tz, CRON_SECRET, lookups, upserts, last, ok200,
                   congrats, nsettings>>
    /\ \E storeOk \in BOOLEAN :
         LET r == sweep[s]
             cm == IF storeOk THEN counterMap(r) ELSE NoCounters
         IN sweep' = [sweep EXCEPT ![s] =
                        Proceed([r EXCEPT !.counters = cm,
                                          !.fetch = IF storeOk THEN "ok" ELSE "countersError"], 1)]

\* update({is_job_done: true}).eq('id', counter.id) returns; its error is not looked at
sweepSetJobDone(s) ==
    /\ sweep[s].pc = "flag"
    /\ UNCHANGED <<users, clock, tz, CRON_SECRET, lookups, upserts, last, ok200, congrats, nsettings>>
    /\ sweep' = [sweep EXCEPT ![s].pc = "post"]
    /\ \E storeOk \in BOOLEAN :
         github_counter' =
            IF storeOk
            THEN setJobDone(github_counter, sweep[s].users[sweep[s].i].id, sweep[s].today)
            ELSE github_counter

\* goalMet ? 'Congratulations! ...' : 'push kar bc'
message(r, j) == IF goalMet(r, j) THEN "congrats" ELSE "reminder"

\* axios.post(user.discord_webhook_url, {content}) returns, or throws and ends the call
sweepPost(s, delivered) ==
    /\ sweep[s].pc = "post"
    /\ UNCHANGED <<users, github_counter, clock, tz, CRON_SECRET, lookups, upserts, last, ok200,
                   nsettings>>
    /\ LET r == sweep[s]
           u == r.users[r.i].id
       IN IF delivered
          THEN /\ sweep' = [sweep EXCEPT ![s] = Proceed(r, r.i + 1)]
               /\ congrats' = IF message(r, r.i) = "congrats"
                              THEN [congrats EXCEPT ![u, r.today] = @ + 1]
                              ELSE congrats
          ELSE /\ sweep' = [sweep EXCEPT ![s] = IdleSweep]
               /\ UNCHANGED congrats

---------------------------------------------------------------------------
(* External trigger: GET /api/cron *)

NotSet == "undefined"            \* the variable, header or parameter is absent
CronSecret == "cron-secret"      \* the secret shared with the external scheduler
WrongSecret == "guess"
SecretInputs == {NotSet, CronSecret, WrongSecret}

\* request.headers['x-cron-secret'] || request.query.secret
presentedSecret(header, query) == IF header # NotSet THEN header ELSE query

\* if (process.env.CRON_SECRET && cronSecret !== process.env.CRON_SECRET): 401
cronUnauthorized(header, query) ==
    /\ CRON_SECRET # NotSet
    /\ presentedSecret(header, query) # CRON_SECRET

\* GET /api/cron: the 401 answer, or await checkPushGoals()
cron(s, header, query) ==
    IF cronUnauthorized(header, query) THEN UNCHANGED vars ELSE checkPushGoals(s)

---------------------------------------------------------------------------
(* Specifications *)

\* a users row as /callback creates it (push_goal DEFAULT 1), before onboarding
FreshUser == [push_goal |-> 1, annoy_time |-> NullTime, discord_webhook_url |-> NullUrl]
\* users that have set their goal, time and Discord webhook
OnboardedUser(u) ==
    [push_goal |-> IF u <= MaxGoal THEN u ELSE 1,
     annoy_time |-> IF u - 1 \in Times THEN u - 1 ELSE 0,
     discord_webhook_url |-> Url]

InitCommon ==
    /\ github_counter = [k \in Users \X Dates |-> NoRow]
    /\ clock = 0
    /\ tz \in TzOffsets
    /\ lookups = [x \in SenderIds |-> 0]
    /\ upserts = [u \in Users |-> 0]
    /\ last = NoAnswer
    /\ ok200 = [k \in Users \X Dates |-> 0]
    /\ sweep = [s \in SweepIds |-> IdleSweep]
    /\ congrats = [k \in Users \X Dates |-> 0]
    /\ nsettings = 0

Init ==
    /\ InitCommon
    /\ CRON_SECRET = CronSecret
    /\ users = [u \in Users |-> OnboardedUser(u)]

\* room for one more push of this sender within the bounds
PushRoom(sender, inflight) ==
    /\ Inflight < inflight
    /\ Known(sender) =>
         github_counter[UserOf(sender), Today].push_counter + lookups[sender]
            + upserts[UserOf(sender)] < MaxPush

\* correctly signed pushes of the users, one request at a time
Push == \E b \in PushBodies :
          /\ PushRoom(b.sender, 1)
          /\ gitwebhook(b, Sign(GITWEBHOOK_SECRET, b))
          /\ UNCHANGED last
Lookup == \E x \in SenderIds, storeOk \in BOOLEAN :
            webhookLookup(x, storeOk) /\ UNCHANGED last
Upsert == \E u \in Users, storeOk \in BOOLEAN :
            webhookUpsert(u, storeOk) /\ UNCHANGED last
Settings ==
    /\ nsettings < MaxSettings
    /\ \E u \in Users, g \in GoalInputs, t \in TimeInputs, w \in UrlInputs :
         settings(u, g, t, w)
Onboarding ==
    /\ nsettings < MaxSettings
    /\ \E u \in Users, g \in GoalInputs, t \in TimeInputs, w \in UrlInputs :
         onboarding(u, g, t, w)
\* the timer fires while no sweep is running
SweepStart ==
    /\ \A s \in SweepIds : sweep[s].pc = "idle"
    /\ \A k \in Users \X Dates : congrats[k] < MaxCongrats
    /\ checkPushGoals(1)
SweepStep == \E s \in SweepIds :
               \/ sweepFetchUsers(s)
               \/ sweepFetchCounters(s)
               \/ sweepSetJobDone(s)
               \/ \E delivered \in BOOLEAN : sweepPost(s, delivered)
\* time passes within the date
TickSameDay == Tick /\ Today' = Today

\* the service during one date, its timer firing one sweep at a time
Next == Push \/ Lookup \/ Upsert \/ Settings \/ Onboarding \/ SweepStart \/ SweepStep
           \/ TickSameDay

Spec == Init /\ [][Next]_vars

\* the service across midnight UTC, settings left alone
NextRollover == Push \/ Lookup \/ Upsert \/ SweepStart \/ SweepStep \/ Tick

SpecRollover == Init /\ [][NextRollover]_vars

\* the timer or GET /api/cron calls checkPushGoals while another call may run
SweepStartOverlapping == \E s \in SweepIds :
    /\ \A k \in Users \X Dates : congrats[k] < MaxCongrats
    /\ checkPushGoals(s)

\* the service during one date with overlapping sweeps, settings left alone
NextOverlap == Push \/ Lookup \/ Upsert \/ SweepStartOverlapping \/ SweepStep \/ TickSameDay

\* the host runs on UTC
InitOverlap == Init /\ tz = 0

SpecOverlap == InitOverlap /\ [][NextOverlap]_vars

\* the steps of a sweep while the store answers every query and update
SweepStepStoreUp == \E s \in SweepIds :
    \/ /\ sweepFetchUsers(s)
       /\ sweep'[s].pc = "idle" => Selections(sweep[s].now) = {<<>>}
    \/ /\ sweepFetchCounters(s)
       /\ sweep'[s].fetch # "countersError"
    \/ /\ sweepSetJobDone(s)
       /\ github_counter'[Target(sweep[s]), sweep[s].today].is_job_done
    \/ \E delivered \in BOOLEAN : sweepPost(s, delivered)

\* pushes and sweeps at one instant of a date, the store available to the sweeps
NextLive == Push \/ Lookup \/ Upsert \/ SweepStart \/ SweepStepStoreUp

\* the timer keeps firing and every awaited call of a sweep returns
SpecLive == Init /\ [][NextLive]_vars /\ WF_vars(SweepStart) /\ WF_vars(SweepStepStoreUp)

\* a deployment without the timer (VERCEL = '1'): sweeps are started by
\* GET /api/cron only, with CRON_SECRET set or not
CronRequest ==
    /\ \A s \in SweepIds : sweep[s].pc = "idle"
    /\ \A k \in Users \X Dates : congrats[k] < MaxCongrats
    /\ \E header \in SecretInputs, query \in SecretInputs : cron(1, header, query)

InitCron ==
    /\ InitCommon
    /\ tz = 0
    /\ CRON_SECRET \in {NotSet, CronSecret}
    /\ users = [u \in Users |-> OnboardedUser(u)]

NextCron == Push \/ Lookup \/ Upsert \/ CronRequest \/ SweepStep \/ TickSameDay

SpecCron == InitCron /\ [][NextCron]_vars

\* the account pages: logins, onboarding and settings requests with every
\* shape of push_goal, and the sweeps that read the rows they leave
Callback == \E u \in Users : callback(u)
SettingsAny ==
    /\ nsettings < MaxRequests
    /\ \E u \in Users, g \in GoalInputsAll, t \in TimeInputs, w \in UrlInputs :
         settings(u, g, t, w)
OnboardingAny ==
    /\ nsettings < MaxRequests
    /\ \E u \in Users, g \in GoalInputsAll, t \in TimeInputs, w \in UrlInputs :
         onboarding(u, g, t, w)

InitAccount ==
    /\ InitCommon
    /\ tz = 0
    /\ CRON_SECRET = CronSecret
    /\ users = [u \in Users |-> FreshUser]

\* the steps of a sweep while no push has been counted: with no counter row
\* the flag write is not reached
SweepStepNoRows == \E s \in SweepIds :
    \/ sweepFetchUsers(s)
    \/ sweepFetchCounters(s)
    \/ \E delivered \in BOOLEAN : sweepPost(s, delivered)

NextAccount == Callback \/ SettingsAny \/ OnboardingAny \/ SweepStart \/ SweepStepNoRows
                  \/ TickSameDay

SpecAccount == InitAccount /\ [][NextAccount]_vars

\* the webhook ingestor alone: every request, concurrent deliveries, and a
\* client that notes the last answer it got
\* what becomes of an exception thrown inside the async handler depends on the
\* express release: no answer at all (an unhandled rejection), or the answer
\* 500 of the default error handler
Thrown == {"threw", "500"}

Noted(sigok, sender, st) ==
    IF st = "pending" THEN UNCHANGED last
    ELSE IF st = "threw" THEN \E e \in Thrown : last' = Answer(sigok, sender, e)
    ELSE last' = Answer(sigok, sender, st)

Webhook == \E b \in Bodies : \E h \in Headers(b) :
             /\ PushRoom(b.sender, MaxInflight)
             /\ gitwebhook(b, h)
             /\ Noted(SignatureMatches(b, h), b.sender, gitwebhookStatus(b, h))
LookupNoted == \E x \in SenderIds, storeOk \in BOOLEAN :
                 webhookLookup(x, storeOk) /\ Noted(TRUE, x, lookupStatus(x, storeOk))
UpsertNoted == \E u \in Users, storeOk \in BOOLEAN :
                 webhookUpsert(u, storeOk) /\ Noted(TRUE, GithubId(u), upsertStatus(storeOk))

InitIngest ==
    /\ InitCommon
    /\ tz = 0
    /\ CRON_SECRET = CronSecret
    /\ users = [u \in Users |-> FreshUser]

NextIngest == Webhook \/ LookupNoted \/ UpsertNoted \/ Tick

SpecIngest == InitIngest /\ [][NextIngest]_vars

---------------------------------------------------------------------------
(* Claims *)

\* C1: across the serialized sweeps of one date, with pushes interleaved and
\* with store writes and deliveries that may fail, at most one congratulatory
\* message is delivered to a user for that date.
C1_AtMostOneCongratulation ==
    \A k \in Users \X Dates : congrats[k] <= 1

\* C2: the push_count of a user's counter for a date equals the number of that
\* user's webhook deliveries answered 200 on that date, under every
\* interleaving of concurrent deliveries; the row exists iff there was one.
C2_NoLostUpdate ==
    \A k \in Users \X Dates :
        /\ github_counter[k].push_counter = ok200[k]
        /\ github_counter[k].exists <=> ok200[k] > 0

\* C2 witness: MaxPush deliveries of one user, which were in flight together,
\* have all been answered 200 and the counter shows MaxPush.
C2_Witness ==
    \E u \in Users :
        /\ ok200[u, Today] = MaxPush
        /\ github_counter[u, Today].push_counter = MaxPush
        /\ Inflight = 0

\* C3: a sweep that starts when is_job_done is already true for (user, today)
\* sends that user no message, neither congratulation nor reminder.
C3_NoMessageAfterDone ==
    \A s \in SweepIds :
        sweep[s].pc = "post" => Target(sweep[s]) \notin sweep[s].doneAtStart

\* C4: a sweep does not end at a failed delivery while selected, non-finalized
\* users of the batch are still waiting for their decision.
C4_DeliveryFailureDoesNotAbort ==
    [][\A s \in SweepIds :
         (sweep[s].pc = "post" /\ sweep'[s].pc = "idle")
            => \A j \in (sweep[s].i + 1) .. Len(sweep[s].users) : Skipped(sweep[s], j)]_vars

\* C5: a sweep whose counters query (or users query) failed writes no flag and
\* sends no notification.
C5_FetchFailureAbortsSweep ==
    \A s \in SweepIds :
        sweep[s].fetch = "countersError" => sweep[s].pc \notin {"flag", "post"}

\* C6: when the sweep attempts delivery of a congratulatory message, the
\* is_job_done flag of that user's counter for today is already true.
C6_FlagSetBeforeCongratulation ==
    \A s \in SweepIds :
        (sweep[s].pc = "post" /\ message(sweep[s], sweep[s].i) = "congrats")
            => github_counter[Target(sweep[s]), sweep[s].today].is_job_done

\* C7: a webhook request whose signature is not the HMAC-SHA256 of its raw body
\* changes no counter and starts no lookup or increment, whatever its payload.
C7_InvalidSignatureNoMutation ==
    [][\/ UNCHANGED <<github_counter, lookups, upserts, users>>
       \/ \A b \in Bodies : \A h \in Headers(b) :
            ~(~SignatureMatches(b, h) /\ gitwebhook(b, h))]_vars

\* C7 witness: a request with a forged signature and the payload of a known
\* sender has been answered 401 while counters exist.
C7_Witness ==
    /\ last = [sigok |-> FALSE, known |-> TRUE, status |-> "401"]
    /\ \E k \in Users \X Dates : github_counter[k].exists

\* C8: the lookup of a correctly signed webhook whose sender matches no user is
\* answered 404 and changes no counter and no user.
C8_UnknownSenderNotFound ==
    [][\A x \in SenderIds, storeOk \in BOOLEAN :
         (~Known(x) /\ webhookLookup(x, storeOk))
            => /\ last' = [sigok |-> TRUE, known |-> FALSE, status |-> "404"]
               /\ UNCHANGED <<github_counter, users, upserts, ok200>>]_vars

\* C8 witness: a correctly signed webhook of an unknown sender has been
\* answered 404 while counters exist.
C8_Witness ==
    /\ last = [sigok |-> TRUE, known |-> FALSE, status |-> "404"]
    /\ \E k \in Users \X Dates : github_counter[k].exists

\* C9: no row a sweep has selected has annoy_time null; flags are written and
\* messages are posted only for selected rows.
C9_NullAnnoyTimeNeverSelected ==
    \A s \in SweepIds :
        \A j \in DOMAIN sweep[s].users : sweep[s].users[j].annoy_time # NullTime

\* C9 witness: a sweep is posting to a selected user while another user, with
\* an endpoint, a counter that meets the goal and annoy_time null, is not in
\* the selection and has no flag set.
C9_Witness ==
    \E s \in SweepIds, u \in Users :
        /\ sweep[s].pc = "post"
        /\ users[u].annoy_time = NullTime
        /\ users[u].discord_webhook_url # NullUrl
        /\ github_counter[u, sweep[s].today].exists
        /\ github_counter[u, sweep[s].today].push_counter >= users[u].push_goal
        /\ ~github_counter[u, sweep[s].today].is_job_done
        /\ u \notin SelectedIds(sweep[s])

\* C10: when the sweep posts to a selected, non-finalized user, the message is
\* a congratulation and the user's flag for today is true if goal_met, and the
\* message is a reminder and the flag is false otherwise.
C10_DecisionMatchesFlag ==
    \A s \in SweepIds :
        sweep[s].pc = "post"
            => (goalMet(sweep[s], sweep[s].i)
                  <=> github_counter[Target(sweep[s]), sweep[s].today].is_job_done)

\* C11: a selected user with no counter row for today gets the reminder in
\* every sweep: a sweep does not end while a selected user that still has no
\* counter row has not been posted to.
C11_ReminderInEverySweep ==
    [][\A s \in SweepIds :
         (sweep[s].pc = "post" /\ sweep'[s].pc = "idle")
            => \A j \in (sweep[s].i + 1) .. Len(sweep[s].users) :
                 github_counter[sweep[s].users[j].id, sweep[s].today].exists]_vars

\* C12: what a sweep decides for a user comes from that user's counter of the
\* sweep's date only: with no row for that date the user is not skipped, counts
\* 0 pushes and gets no flag write, whatever the rows of earlier dates hold.
C12_FreshCounterOnNewDate ==
    \A s \in SweepIds :
        sweep[s].pc \in {"flag", "post"} =>
            \A j \in DOMAIN sweep[s].users :
                ~github_counter[sweep[s].users[j].id, sweep[s].today].exists
                    => /\ ~Skipped(sweep[s], j)
                       /\ pushCount(sweep[s], j) = 0
                       /\ ~writesFlag(sweep[s], j)

\* C12 witness: on the date after the one a user was finalized for, a sweep is
\* posting the reminder to that user, who has no counter row for the new date.
C12_Witness ==
    \E s \in SweepIds :
        /\ sweep[s].pc = "post"
        /\ sweep[s].today > 0
        /\ sweep[s].fetch = "ok"
        /\ github_counter[Target(sweep[s]), sweep[s].today - 1].is_job_done
        /\ ~github_counter[Target(sweep[s]), sweep[s].today].exists
        /\ message(sweep[s], sweep[s].i) = "reminder"

\* C13: with two checkPushGoals calls that may overlap, and sweeps following
\* them, at most two congratulatory messages are delivered to a user for a date.
C13_AtMostTwoCongratulations ==
    \A k \in Users \X Dates : congrats[k] <= 2

\* C14: the date key and the time of day a sweep reads denote the instant of
\* the read in one timezone, UTC or the host's: both are the date and the time
\* of day of the clock shifted by one and the same offset.
C14_SingleClock ==
    [][\A s \in SweepIds :
         (sweep[s].pc = "idle" /\ sweep'[s].pc = "users")
            => \E z \in {0, tz} :
                 /\ sweep'[s].today = (clock + z) \div TicksPerDay
                 /\ sweep'[s].now = (clock + z) % TicksPerDay]_vars

\* C15: is_job_done of a counter is a one-way latch: no step of a webhook, a
\* sweep or a settings update sets a true flag back to false.
C15_JobDoneLatch ==
    [][\A k \in Users \X Dates :
         github_counter[k].is_job_done => github_counter'[k].is_job_done]_vars

\* C15 witness: a push has been counted on a row whose flag was already true,
\* and a sweep is running after it.
C15_Witness ==
    \E k \in Users \X Dates, s \in SweepIds :
        /\ github_counter[k].is_job_done
        /\ github_counter[k].push_counter > users[k[1]].push_goal
        /\ sweep[s].pc = "counters"
        /\ k[1] \in SelectedIds(sweep[s])

\* C16: the counter of a (user, date), once it exists, is never deleted and its
\* push_counter never decreases, whatever webhook, sweep, settings or
\* onboarding step is taken; the table holds one row per (user_id, date).
C16_CountNeverDecreases ==
    [][\A k \in Users \X Dates :
         github_counter[k].exists
            => /\ github_counter'[k].exists
               /\ github_counter'[k].push_counter >= github_counter[k].push_counter]_vars

\* C16 witness: after a settings or onboarding request, a counter that was
\* incremented up to MaxPush has had its flag written by a sweep.
C16_Witness ==
    \E k \in Users \X Dates :
        /\ github_counter[k].push_counter = MaxPush
        /\ github_counter[k].is_job_done
        /\ nsettings > 0

\* C17: a step of a sweep changes no users row and, in the counters, nothing
\* but is_job_done, set to true on an existing row of the sweep's date: every
\* push_counter, the set of rows and the rows of other dates stay as they are.
C17_SweepFrame ==
    [][\A s \in SweepIds :
         sweep'[s] # sweep[s]
            => /\ users' = users
               /\ \A k \in Users \X Dates :
                    \/ github_counter'[k] = github_counter[k]
                    \/ /\ k[2] = sweep[s].today
                       /\ github_counter[k].exists
                       /\ github_counter'[k] =
                            [github_counter[k] EXCEPT !.is_job_done = TRUE]]_vars

\* C17 witness: a sweep of the second date has written the flag of a user
\* whose counter of the first date exists and has no flag.
C17_Witness ==
    \E s \in SweepIds :
        /\ sweep[s].pc = "post"
        /\ sweep[s].today > 0
        /\ github_counter[Target(sweep[s]), sweep[s].today].is_job_done
        /\ github_counter[Target(sweep[s]), sweep[s].today - 1].exists
        /\ ~github_counter[Target(sweep[s]), sweep[s].today - 1].is_job_done

\* C18: a webhook request whose claimed signature does not match is answered
\* 401, whatever the shape of the claimed signature.
C18_BadSignatureIs401 ==
    (last.status # "none" /\ ~last.sigok) => last.status = "401"

\* C19: a correctly signed webhook is answered 500 when the user lookup fails
\* in the store and when the increment fails, and the failed increment leaves
\* the counters as they were.
C19_StoreFailureIs500 ==
    [][/\ \A x \in SenderIds :
            (Known(x) /\ webhookLookup(x, FALSE)) => last'.status = "500"
       /\ \A u \in Users :
            webhookUpsert(u, FALSE)
               => (last'.status = "500" /\ UNCHANGED github_counter)]_vars

\* C20: every correctly signed webhook request ends in a response code, also
\* when its body is not JSON or has no sender.
C20_EveryRequestAnswered ==
    last.sigok => last.status \in {"200", "401", "404", "500"}

\* C21: the users query of a sweep reading time of day now returns exactly the
\* users with an endpoint, with annoy_time set and annoy_time <= now, and the
\* sweep writes flags and posts only for rows with annoy_time <= now.
C21_SelectedIffDue ==
    [][\A s \in SweepIds :
         /\ (sweep[s].pc = "users" /\ sweep'[s].pc = "counters")
               => SelectedIds(sweep'[s]) =
                     {u \in Users : /\ users[u].discord_webhook_url # NullUrl
                                    /\ users[u].annoy_time # NullTime
                                    /\ users[u].annoy_time <= sweep[s].now}
         /\ sweep'[s].pc \in {"flag", "post"}
               => LET row == sweep'[s].users[sweep'[s].i] IN
                  /\ row.discord_webhook_url # NullUrl
                  /\ row.annoy_time # NullTime
                  /\ row.annoy_time <= sweep'[s].now]_vars

\* C21 witness: a sweep is posting to a user whose annoy_time equals now, while
\* a user whose annoy_time is still ahead, and whose count meets the goal, is
\* not in the selection.
C21_Witness ==
    \E s \in SweepIds, u \in Users :
        /\ sweep[s].pc = "post"
        /\ sweep[s].users[sweep[s].i].annoy_time = sweep[s].now
        /\ u \notin SelectedIds(sweep[s])
        /\ users[u].discord_webhook_url # NullUrl
        /\ users[u].annoy_time > sweep[s].now
        /\ github_counter[u, sweep[s].today].exists
        /\ github_counter[u, sweep[s].today].push_counter >= users[u].push_goal

\* C22: with sweeps that keep firing and the store available, a user who is
\* due, whose count for today meets the goal and whose flag is not set yet is
\* eventually handled on the goal-met path: the flag is true and the
\* congratulation is being posted.
C22_GoalMetEventuallyDone ==
    \A u \in Users :
        (/\ Due(users[u], Now)
         /\ github_counter[u, Today].exists
         /\ github_counter[u, Today].push_counter >= users[u].push_goal
         /\ ~github_counter[u, Today].is_job_done)
            ~> (\E s \in SweepIds :
                  /\ sweep[s].pc = "post"
                  /\ Target(sweep[s]) = u
                  /\ message(sweep[s], sweep[s].i) = "congrats"
                  /\ github_counter[u, sweep[s].today].is_job_done)

\* C23: when a sweep that has read the counters posts a reminder, the stored
\* push_counter of that user for the sweep's date is still below the push_goal.
C23_ReminderOnlyBelowGoal ==
    \A s \in SweepIds :
        (/\ sweep[s].pc = "post"
         /\ sweep[s].fetch = "ok"
         /\ message(sweep[s], sweep[s].i) = "reminder")
            => github_counter[Target(sweep[s]), sweep[s].today].push_counter
                  < sweep[s].users[sweep[s].i].push_goal

\* C24: a GET /api/cron request that carries the shared secret neither in the
\* x-cron-secret header nor in the secret parameter starts no sweep, writes no
\* flag and sends nothing, whether CRON_SECRET is set or not.
C24_CronNeedsSecret ==
    [][\A header \in SecretInputs, query \in SecretInputs :
         (header # CronSecret /\ query # CronSecret /\ cron(1, header, query))
            => UNCHANGED <<sweep, github_counter, congrats>>]_vars

\* C25: after every step the stored push_goal of every user is an integer
\* >= 1; a settings or onboarding request whose push_goal is missing where it
\* is required, not a number, or below 1 changes no users row; and a sweep
\* never takes the goal-met path for a user without a counter row.
C25_PushGoalPositive ==
    [][/\ \A u \in Users : users'[u].push_goal \in 1 .. MaxGoal
       /\ \/ UNCHANGED users
          \/ \A u \in {x \in Users : users'[x] # users[x]},
                g \in {x \in GoalInputsAll : parseInt(x).nan \/ parseInt(x).n < 1},
                t \in TimeInputs, w \in UrlInputs :
               /\ g.t # "undefined" => ~settings(u, g, t, w)
               /\ ~onboarding(u, g, t, w)
       /\ \A s \in SweepIds :
            (/\ sweep'[s].pc \in {"flag", "post"}
             /\ ~sweep'[s].counters[Target(sweep'[s])].exists)
               => (sweep'[s].pc = "post" /\ message(sweep'[s], sweep'[s].i) = "reminder")]_vars

\* C25 witness: after MaxRequests account requests a sweep is posting the
\* reminder to a user without a counter row whose push_goal was raised.
C25_Witness ==
    \E s \in SweepIds :
        /\ nsettings = MaxRequests
        /\ sweep[s].pc = "post"
        /\ sweep[s].users[sweep[s].i].push_goal = MaxGoal
        /\ ~github_counter[Target(sweep[s]), sweep[s].today].exists
        /\ \E u \in Users : users[u] = FreshUser

====
